---------------------------- MODULE Spec2Model ----------------------------
(***************************************************************************)
(* Model of GlossaryManager (src/GlossaryManagerV1.1.py): the in-memory    *)
(* term store, its JSON persistence and the analytics run over it.         *)
(*                                                                         *)
(* Strings are sequences of one-character strings, so that str.strip() and *)
(* truthiness are computed and not assumed:  <<>> is "", <<" ">> is " ".   *)
(* A Python dict is a sequence of [key, val] entries in insertion order.   *)
(***************************************************************************)
EXTENDS Integers, Sequences, FiniteSets, TLC

VARIABLES terms, file, clock, nops, fed, last

vars == <<terms, file, clock, nops, fed, last>>

\* Bound of the model: the number of store operations of a run.
MaxOps == 2

\* terms: self.terms.  file: data/terms.json.  clock: the reading of
\* datetime.now(); every store operation happens one tick after the one
\* before it.  nops: the store operations performed so far.  fed: the
\* (term, translation) pairs accepted by the add_term calls made in a row.
\* last: the last call, what it was given and what it returned (ret), the
\* outcome of its file write (write), whether messagebox.showerror was
\* called (err), and the store, the file and the write outcome before it.

----------------------------------------------------------------------------
(* Strings *)

Whitespace == {" "}

RECURSIVE LStrip(_)
LStrip(s) ==
    IF s # <<>> /\ Head(s) \in Whitespace THEN LStrip(Tail(s)) ELSE s

RECURSIVE RStrip(_)
RStrip(s) ==
    IF s # <<>> /\ s[Len(s)] \in Whitespace
    THEN RStrip(SubSeq(s, 1, Len(s) - 1))
    ELSE s

(* str.strip() *)
Strip(s) == RStrip(LStrip(s))

(* bool(s) of a str *)
Truthy(s) == s # <<>>

(* datetime.now().strftime("%Y-%m-%d %H:%M:%S") at clock reading now *)
Strftime(now) == <<now>>

----------------------------------------------------------------------------
(* Python dict, insertion ordered *)

HasKey(d, k) == \E i \in 1..Len(d) : d[i].key = k

IndexOf(d, k) == CHOOSE i \in 1..Len(d) : d[i].key = k

DictGet(d, k) == d[IndexOf(d, k)].val

(* d.setdefault(k, v): the bug of keeping the record already stored *)
DictSetDefault(d, k, v) ==
    IF HasKey(d, k) THEN d ELSE Append(d, [key |-> k, val |-> v])

(* d[k] = v : an existing key keeps its position, a new key goes last *)
DictSet(d, k, v) ==
    IF HasKey(d, k)
    THEN [d EXCEPT ![IndexOf(d, k)] = [key |-> k, val |-> v]]
    ELSE Append(d, [key |-> k, val |-> v])

(* del d[k] *)
DictDel(d, k) == SelectSeq(d, LAMBDA e : e.key # k)

Keys(d) == {d[i].key : i \in 1..Len(d)}

----------------------------------------------------------------------------
(* Term dataclass *)

Fields ==
    {"term", "translation", "category", "context", "notes", "created_at",
     "flags", "history"}

Required == {"term", "translation"}

Persisted ==
    {"term", "translation", "category", "context", "notes", "created_at"}

Opt(kw, f, default) == IF f \in DOMAIN kw THEN kw[f] ELSE default

(* Term(kw) raises TypeError on a missing required or an unexpected keyword *)
TermOk(kw) == Required \subseteq DOMAIN kw /\ DOMAIN kw \subseteq Fields

(* __post_init__ that stamps the record whatever created_at it was given *)
PostInitAlwaysStamp(created_at, now) == Strftime(now)

(* __post_init__: created_at is set only when it is empty *)
PostInit(created_at, now) ==
    IF ~Truthy(created_at) THEN Strftime(now) ELSE created_at

(* Term(kw) constructed when the clock reads now *)
Term(kw, now) ==
    [term        |-> kw.term,
     translation |-> kw.translation,
     category    |-> Opt(kw, "category", <<>>),
     context     |-> Opt(kw, "context", <<>>),
     notes       |-> Opt(kw, "notes", <<>>),
     created_at  |-> PostInit(Opt(kw, "created_at", <<>>), now),
     flags       |-> Opt(kw, "flags", {}),
     history     |-> Opt(kw, "history", <<>>)]

----------------------------------------------------------------------------
(* Persistence.  file.kind is "absent" (no data/terms.json), "unreadable" *)
(* (the path exists and open(.., "r") raises), "garbage" (not a JSON       *)
(* object: invalid or truncated text) or "object" (a JSON object,          *)
(* file.data its members in order).                                        *)

NoFile == [kind |-> "absent", data |-> <<>>]
Unreadable == [kind |-> "unreadable", data |-> <<>>]
Garbage == [kind |-> "garbage", data |-> <<>>]
JsonObject(data) == [kind |-> "object", data |-> data]

(* Outcome of the write in save_terms: "ok"; "denied" (mkdir or open       *)
(* raised, the file is untouched); "partial" (open truncated the file and  *)
(* the dump raised before completing).                                     *)
WriteOutcomes == {"ok", "denied", "partial"}

(* the dict comprehension of save_terms with the notes field forgotten *)
SerializeNoNotes(ts) ==
    [i \in 1..Len(ts) |->
        [key |-> ts[i].key,
         val |-> [term        |-> ts[i].val.term,
                  translation |-> ts[i].val.translation,
                  category    |-> ts[i].val.category,
                  context     |-> ts[i].val.context,
                  created_at  |-> ts[i].val.created_at]]]

(* the dict comprehension of save_terms *)
Serialize(ts) ==
    [i \in 1..Len(ts) |->
        [key |-> ts[i].key,
         val |-> [term        |-> ts[i].val.term,
                  translation |-> ts[i].val.translation,
                  category    |-> ts[i].val.category,
                  context     |-> ts[i].val.context,
                  notes       |-> ts[i].val.notes,
                  created_at  |-> ts[i].val.created_at]]]

(* save_terms: every exception is caught and shown, nothing is returned *)
save_terms(ts, f, w) ==
    CASE w = "ok"      -> [file |-> JsonObject(Serialize(ts)), err |-> FALSE]
      [] w = "denied"  -> [file |-> f, err |-> TRUE]
      [] w = "partial" -> [file |-> Garbage, err |-> TRUE]

(* load_terms that fills self.terms entry by entry *)
RECURSIVE load_terms_incremental(_, _, _)
load_terms_incremental(ts, f, now) ==
    IF f.kind = "absent" THEN [terms |-> ts, err |-> FALSE]
    ELSE IF f.kind \in {"unreadable", "garbage"}
         THEN [terms |-> ts, err |-> TRUE]
    ELSE IF f.data = <<>> THEN [terms |-> ts, err |-> FALSE]
    ELSE IF ~TermOk(Head(f.data).val) THEN [terms |-> ts, err |-> TRUE]
    ELSE load_terms_incremental(
             DictSet(ts, Head(f.data).key, Term(Head(f.data).val, now)),
             JsonObject(Tail(f.data)), now)

(* load_terms: self.terms is assigned only when every record was built *)
load_terms(ts, f, now) ==
    IF f.kind = "absent" THEN [terms |-> ts, err |-> FALSE]
    ELSE IF f.kind \in {"unreadable", "garbage"}
         THEN [terms |-> ts, err |-> TRUE]
    ELSE IF \E i \in 1..Len(f.data) : ~TermOk(f.data[i].val)
         THEN [terms |-> ts, err |-> TRUE]
    ELSE [terms |-> [i \in 1..Len(f.data) |->
                        [key |-> f.data[i].key,
                         val |-> Term(f.data[i].val, now)]],
          err   |-> FALSE]

----------------------------------------------------------------------------
(* Mutations *)

(* the validation with the translation test forgotten *)
IsBlankTermOnly(term) == ~Truthy(Strip(term.term))

(* the condition of the raise in add_term *)
IsBlank(term) ==
    ~Truthy(Strip(term.term)) \/ ~Truthy(Strip(term.translation))

\* a value read from an empty spreadsheet cell: a float, which has no strip()
NaN == <<"nan">>

\* term.term.strip() or term.translation.strip() raises AttributeError
StripRaises(term) == term.term = NaN \/ term.translation = NaN

add_term(ts, f, term, w) ==
    IF StripRaises(term) \/ IsBlank(term)
    THEN [terms |-> ts, file |-> f, ret |-> FALSE, write |-> "none",
          err |-> TRUE]
    ELSE LET ts2 == DictSet(ts, term.term, term)
             s   == save_terms(ts2, f, w)
         IN  [terms |-> ts2, file |-> s.file, ret |-> TRUE, write |-> w,
              err |-> s.err]

(* remove_term that saves before it looks the key up *)
remove_term_always_saves(ts, f, key, w) ==
    LET ts2 == DictDel(ts, key)
        s   == save_terms(ts2, f, w)
    IN  [terms |-> ts2, file |-> s.file, ret |-> HasKey(ts, key),
         write |-> w, err |-> s.err]

remove_term(ts, f, key, w) ==
    IF HasKey(ts, key)
    THEN LET ts2 == DictDel(ts, key)
             s   == save_terms(ts2, f, w)
         IN  [terms |-> ts2, file |-> s.file, ret |-> TRUE, write |-> w,
              err |-> s.err]
    ELSE [terms |-> ts, file |-> f, ret |-> FALSE, write |-> "none",
          err |-> FALSE]

----------------------------------------------------------------------------
\* GlossaryGUI handlers that change the store

\* row['Term'] or row['Translation'] raises KeyError
RowRaises(row) == ~({"Term", "Translation"} \subseteq DOMAIN row)

\* the Term built from a row; row.get(column, '') for the optional columns
RowTerm(row, now) ==
    Term([term        |-> row.Term,
          translation |-> row.Translation,
          category    |-> Opt(row, "Category", <<>>),
          context     |-> Opt(row, "Context", <<>>),
          notes       |-> Opt(row, "Notes", <<>>)], now)

\* what one add_term call of a handler adds to the handler's outcome so far
After(st, r, t) ==
    [terms |-> r.terms,
     file  |-> r.file,
     count |-> IF r.ret THEN st.count + 1 ELSE st.count,
     write |-> IF r.write = "none" THEN st.write ELSE r.write,
     err   |-> st.err \/ r.err,
     fed   |-> IF r.ret THEN Append(st.fed, <<t.term, t.translation>>)
               ELSE st.fed]

\* the import loop leaving at the first row that is not imported
RECURSIVE ImportLoopStopsAtBadRow(_, _, _, _)
ImportLoopStopsAtBadRow(rows, ws, now, st) ==
    IF rows = <<>> THEN st
    ELSE IF RowRaises(Head(rows)) THEN st
    ELSE LET t == RowTerm(Head(rows), now)
             r == add_term(st.terms, st.file, t, Head(ws))
         IN  IF r.ret
             THEN ImportLoopStopsAtBadRow(Tail(rows), Tail(ws), now,
                                          After(st, r, t))
             ELSE After(st, r, t)

\* the loop of import_terms over df.iterrows(); ws are the outcomes of the
\* file writes of the rows
RECURSIVE ImportLoop(_, _, _, _)
ImportLoop(rows, ws, now, st) ==
    IF rows = <<>> THEN st
    ELSE IF RowRaises(Head(rows))
         THEN ImportLoop(Tail(rows), Tail(ws), now, st)
    ELSE LET t == RowTerm(Head(rows), now)
             r == add_term(st.terms, st.file, t, Head(ws))
         IN  ImportLoop(Tail(rows), Tail(ws), now, After(st, r, t))

\* the steps of edit_term once the dialog has returned result for the
\* selected term_key: remove_term(term_key), then add_term(result)
edit_term(ts, f, term_key, result, w1, w2) ==
    LET r == remove_term(ts, f, term_key, w1)
        a == add_term(r.terms, r.file, result, w2)
    IN  [terms   |-> a.terms,
         file    |-> a.file,
         removed |-> r.ret,
         added   |-> a.ret,
         write   |-> IF a.write = "none" THEN r.write ELSE a.write,
         err     |-> r.err \/ a.err]

----------------------------------------------------------------------------
\* Analytics

\* sum(1 for t in self.terms.values() if t.translation)
RECURSIVE CountTranslated(_)
CountTranslated(ts) ==
    IF ts = <<>> THEN 0
    ELSE (IF Truthy(Head(ts).val.translation) THEN 1 ELSE 0)
         + CountTranslated(Tail(ts))

\* the category loop with the truthiness test forgotten
RECURSIVE CountCategoriesAll(_, _)
CountCategoriesAll(ts, categories) ==
    IF ts = <<>> THEN categories
    ELSE LET c == Head(ts).val.category
             n == IF HasKey(categories, c) THEN DictGet(categories, c) ELSE 0
         IN  CountCategoriesAll(Tail(ts), DictSet(categories, c, n + 1))

\* the category loop: categories[c] = categories.get(c, 0) + 1 if c is truthy
RECURSIVE CountCategories(_, _)
CountCategories(ts, categories) ==
    IF ts = <<>> THEN categories
    ELSE LET c == Head(ts).val.category
             n == IF HasKey(categories, c) THEN DictGet(categories, c) ELSE 0
         IN  CountCategories(Tail(ts),
                 IF Truthy(c) THEN DictSet(categories, c, n + 1)
                 ELSE categories)

\* f"{(translated / total * 100):.1f}%" if total else "0%".  The formatted
\* number is kept as its count of tenths of a percent, rounded to nearest.
FormatPercent(translated, total) ==
    IF total # 0
    THEN [text |-> "tenths%",
          tenths |-> (2000 * translated + total) \div (2 * total)]
    ELSE [text |-> "0%", tenths |-> 0]

get_statistics(ts) ==
    [total      |-> Len(ts),
     translated |-> CountTranslated(ts),
     progress   |-> FormatPercent(CountTranslated(ts), Len(ts)),
     categories |-> CountCategories(ts, <<>>)]

\* the loop of check_duplicates recording the owner on every term
RECURSIVE DuplicatesLoopLastOwner(_, _, _)
DuplicatesLoopLastOwner(ts, translations, found) ==
    IF ts = <<>> THEN found
    ELSE LET term == Head(ts).val
         IN  IF HasKey(translations, term.translation)
             THEN DuplicatesLoopLastOwner(Tail(ts),
                      DictSet(translations, term.translation, term),
                      Append(found,
                             <<DictGet(translations, term.translation).term,
                               term.term>>))
             ELSE DuplicatesLoopLastOwner(Tail(ts),
                      DictSet(translations, term.translation, term), found)

\* the loop of check_duplicates over self.terms.values()
RECURSIVE DuplicatesLoop(_, _, _)
DuplicatesLoop(ts, translations, found) ==
    IF ts = <<>> THEN found
    ELSE LET term == Head(ts).val
         IN  IF HasKey(translations, term.translation)
             THEN DuplicatesLoop(Tail(ts), translations,
                      Append(found,
                             <<DictGet(translations, term.translation).term,
                               term.term>>))
             ELSE DuplicatesLoop(Tail(ts),
                      DictSet(translations, term.translation, term), found)

check_duplicates(ts) ==
    [terms |-> <<>>, translations |-> DuplicatesLoop(ts, <<>>, <<>>)]

\* The issue text f"...'{term}'...: {first} vs {other}" is kept as the
\* triple of the three strings it interpolates.
RECURSIVE ConsistencyLoop(_, _, _)
ConsistencyLoop(ts, translations, issues) ==
    IF ts = <<>> THEN issues
    ELSE LET term == Head(ts).val
         IN  IF HasKey(translations, term.term)
             THEN ConsistencyLoop(Tail(ts), translations,
                      IF DictGet(translations, term.term) # term.translation
                      THEN Append(issues,
                                  <<term.term,
                                    DictGet(translations, term.term),
                                    term.translation>>)
                      ELSE issues)
             ELSE ConsistencyLoop(Tail(ts),
                      DictSet(translations, term.term, term.translation),
                      issues)

\* check_consistency takes no argument: it scans self.terms.values()
check_consistency(ts) == ConsistencyLoop(ts, <<>>, <<>>)

----------------------------------------------------------------------------
\* Inputs

sA == <<"A">>
sB == <<"B">>
sC == <<"C">>
sX == <<"x">>
sY == <<"y">>
sEmpty == <<>>
sSpace == <<" ">>

\* keyword arguments a caller builds a Term from before add_term
TermArgs ==
    {[term |-> sA, translation |-> sX],
     [term |-> sA, translation |-> sY, category |-> <<"u">>],
     [term |-> sB, translation |-> sX, category |-> sSpace],
     [term |-> sB, translation |-> sY],
     [term |-> sC, translation |-> sX, category |-> <<"u">>,
      context |-> <<"c">>, notes |-> <<"n">>,
      flags |-> {"f"}, history |-> <<"h">>],
     [term |-> <<" ", "A">>, translation |-> <<"x", " ">>],
     [term |-> sEmpty, translation |-> sX],
     [term |-> sSpace, translation |-> sY],
     [term |-> sA, translation |-> sEmpty],
     [term |-> sB, translation |-> <<" ", " ">>]}

RemoveKeys == {sA, sB, sC}

sD == <<"D">>

\* the rows of an imported table after the column mapping
ImportBatches ==
    {<<[Term |-> sA, Translation |-> sX],
       [Term |-> sD, Translation |-> NaN],
       [Term |-> sB, Translation |-> sY, Category |-> <<"u">>],
       [Term |-> sC, Translation |-> sX, Notes |-> <<"n">>]>>,
     <<[Term |-> NaN, Translation |-> sX],
       [Term |-> sA, Translation |-> sSpace],
       [Term |-> sA, Translation |-> sY],
       [Term |-> sA, Translation |-> sX]>>,
     <<[Term |-> sA], [Term |-> sB]>>}

\* the outcomes of the file writes of one import, row by row
ImportWrites ==
    {<<"ok", "ok", "ok", "ok">>, <<"ok", "partial", "denied", "ok">>}

\* what the dialog returns when the user changes the shown term: the five
\* entry texts, with the translation cleared, the translation changed, or
\* the term text changed
DialogResults(term) ==
    LET shown == [term        |-> term.term,
                  translation |-> term.translation,
                  category    |-> term.category,
                  context     |-> term.context,
                  notes       |-> term.notes]
    IN  {[shown EXCEPT !.translation = sEmpty],
         [shown EXCEPT !.translation = sY, !.notes = <<"n">>],
         [shown EXCEPT !.term = sB]}

\* the outcomes of the two file writes of one edit
EditWrites == {<<"ok", "ok">>, <<"ok", "denied">>, <<"partial", "ok">>}

\* a record as an earlier session saved it
Saved(t, tr, cat) ==
    [term |-> t, translation |-> tr, category |-> cat, context |-> <<>>,
     notes |-> <<>>, created_at |-> Strftime(0)]

Member(k, v) == [key |-> k, val |-> v]

\* data/terms.json as the program finds it at start: absent, written by an
\* earlier session, or edited or damaged outside the program
InitFiles ==
    {NoFile,
     Unreadable,
     Garbage,
     JsonObject(<<>>),
     JsonObject(<<Member(sA, Saved(sA, sX, <<"u">>)),
                  Member(sB, Saved(sB, sY, <<>>))>>),
     JsonObject(<<Member(sA, Saved(sA, sX, <<"u">>)),
                  Member(sB, Saved(sB, sX, <<"u">>))>>),
     JsonObject(<<Member(sA, [term |-> sA, translation |-> sEmpty]),
                  Member(sB, [term |-> sB, translation |-> sSpace,
                              category |-> sSpace]),
                  Member(sC, [term |-> sC, translation |-> sX,
                              category |-> sSpace])>>),
     JsonObject(<<Member(sA, Saved(sB, sX, <<>>))>>),
     JsonObject(<<Member(sA, Saved(sC, sX, <<>>)),
                  Member(sB, Saved(sC, sY, <<>>))>>),
     JsonObject(<<Member(sA, Saved(sA, sX, <<>>)),
                  Member(sB, [term |-> sB, translation |-> sY,
                              bogus |-> <<"z">>])>>),
     JsonObject(<<Member(sA, Saved(sA, sX, <<>>)),
                  Member(sB, [term |-> sB])>>)}

----------------------------------------------------------------------------
\* State machine

Pre == [terms |-> terms, file |-> file, write |-> last.write]

\* GlossaryManager(): self.terms = {} and then load_terms()
Construct(f, now) == load_terms(<<>>, f, now)

Init ==
    /\ file \in InitFiles
    /\ clock = 1
    /\ terms = Construct(file, clock).terms
    /\ nops = 0
    /\ fed = <<>>
    /\ last = [op |-> "init", arg |-> <<>>, ret |-> <<>>, write |-> "none",
               err |-> Construct(file, clock).err,
               pre |-> [terms |-> <<>>, file |-> file, write |-> "none"]]

AddTerm ==
    /\ nops < MaxOps
    /\ \E kw \in TermArgs, w \in WriteOutcomes :
          LET t == Term(kw, clock)
              r == add_term(terms, file, t, w)
          IN  /\ terms' = r.terms
              /\ file' = r.file
              /\ fed' = IF r.ret THEN Append(fed, <<t.term, t.translation>>)
                        ELSE fed
              /\ last' = [op |-> "add_term", arg |-> t, ret |-> r.ret,
                          write |-> r.write, err |-> r.err, pre |-> Pre]
    /\ nops' = nops + 1
    /\ clock' = clock + 1

RemoveTerm ==
    /\ nops < MaxOps
    /\ \E key \in RemoveKeys, w \in WriteOutcomes :
          LET r == remove_term(terms, file, key, w)
          IN  /\ terms' = r.terms
              /\ file' = r.file
              /\ last' = [op |-> "remove_term", arg |-> key, ret |-> r.ret,
                          write |-> r.write, err |-> r.err, pre |-> Pre]
    /\ nops' = nops + 1
    /\ fed' = <<>>
    /\ clock' = clock + 1

SaveTerms ==
    /\ nops < MaxOps
    /\ \E w \in WriteOutcomes :
          LET s == save_terms(terms, file, w)
          IN  /\ file' = s.file
              /\ last' = [op |-> "save_terms", arg |-> <<>>, ret |-> <<>>,
                          write |-> w, err |-> s.err, pre |-> Pre]
    /\ nops' = nops + 1
    /\ fed' = <<>>
    /\ clock' = clock + 1
    /\ UNCHANGED terms

LoadTerms ==
    /\ nops < MaxOps
    /\ LET r == load_terms(terms, file, clock)
       IN  /\ terms' = r.terms
           /\ last' = [op |-> "load_terms", arg |-> <<>>, ret |-> <<>>,
                       write |-> "none", err |-> r.err, pre |-> Pre]
    /\ nops' = nops + 1
    /\ fed' = <<>>
    /\ clock' = clock + 1
    /\ UNCHANGED file

\* the program is started again: a fresh GlossaryManager over the same file
Restart ==
    /\ nops < MaxOps
    /\ LET r == Construct(file, clock)
       IN  /\ terms' = r.terms
           /\ last' = [op |-> "restart", arg |-> <<>>, ret |-> <<>>,
                       write |-> "none", err |-> r.err, pre |-> Pre]
    /\ nops' = nops + 1
    /\ fed' = <<>>
    /\ clock' = clock + 1
    /\ UNCHANGED file

\* import_terms, from the rows of the mapped table on
ImportTerms ==
    /\ nops < MaxOps
    /\ \E rows \in ImportBatches, ws \in ImportWrites :
          LET st == ImportLoop(rows, ws, clock,
                        [terms |-> terms, file |-> file, count |-> 0,
                         write |-> "none", err |-> FALSE, fed |-> fed])
          IN  /\ terms' = st.terms
              /\ file' = st.file
              /\ fed' = st.fed
              /\ last' = [op |-> "import_terms", arg |-> rows,
                          ret |-> st.count, write |-> st.write,
                          err |-> st.err, pre |-> Pre]
    /\ nops' = nops + 1
    /\ clock' = clock + 1

\* edit_term on a selected table row, from the dialog's result on
EditTerm ==
    /\ nops < MaxOps
    /\ \E i \in 1..Len(terms) :
          LET term_key == terms[i].val.term
          IN  /\ HasKey(terms, term_key)
              /\ \E kw \in DialogResults(DictGet(terms, term_key)),
                    ws \in EditWrites :
                    LET result == Term(kw, clock)
                        e == edit_term(terms, file, term_key, result,
                                       ws[1], ws[2])
                    IN  /\ terms' = e.terms
                        /\ file' = e.file
                        /\ fed' = IF e.added
                                  THEN <<<<result.term, result.translation>>>>
                                  ELSE <<>>
                        /\ last' = [op |-> "edit_term",
                                    arg |-> [key |-> term_key,
                                             original |->
                                                 DictGet(terms, term_key),
                                             result |-> result],
                                    ret |-> [removed |-> e.removed,
                                             added |-> e.added],
                                    write |-> e.write, err |-> e.err,
                                    pre |-> Pre]
    /\ nops' = nops + 1
    /\ clock' = clock + 1

Query(op, result) ==
    /\ last.op # op
    /\ last' = [op |-> op, arg |-> <<>>, ret |-> result, write |-> "none",
                err |-> FALSE, pre |-> Pre]
    /\ UNCHANGED <<terms, file, clock, nops, fed>>

GetStatistics == Query("get_statistics", get_statistics(terms))

CheckDuplicates == Query("check_duplicates", check_duplicates(terms))

CheckConsistency == Query("check_consistency", check_consistency(terms))

Next ==
    \/ AddTerm
    \/ RemoveTerm
    \/ SaveTerms
    \/ LoadTerms
    \/ Restart
    \/ GetStatistics
    \/ CheckDuplicates
    \/ CheckConsistency

\* the calls of GlossaryManager
Spec == Init /\ [][Next]_vars

\* the store as the handlers of the window change it
NextHandlers ==
    \/ AddTerm
    \/ RemoveTerm
    \/ ImportTerms
    \/ EditTerm

SpecHandlers == Init /\ [][NextHandlers]_vars

----------------------------------------------------------------------------
\* Vocabulary of the properties, stated without the operators of the model

\* s is empty or whitespace-only
BlankText(s) == \A i \in 1..Len(s) : s[i] = " "

\* the members of a set of positions, in increasing order
Ascending(S) ==
    [n \in 1..Cardinality(S) |->
        CHOOSE i \in S : Cardinality({j \in S : j < i}) = n - 1]

\* f is a JSON object holding exactly the entries of ts, each restricted to
\* the six persisted fields
FileHolds(f, ts) ==
    /\ f.kind = "object"
    /\ Len(f.data) = Len(ts)
    /\ \A i \in 1..Len(ts) :
          /\ f.data[i].key = ts[i].key
          /\ DOMAIN f.data[i].val = Persisted
          /\ \A fld \in Persisted : f.data[i].val[fld] = ts[i].val[fld]

\* the store a load_terms call started from
StoreBeforeLoad == IF last.op = "load_terms" THEN last.pre.terms ELSE <<>>

\* the file cannot be read as a JSON object of Term records
Unloadable(f) ==
    \/ f.kind = "unreadable"
    \/ f.kind = "garbage"
    \/ /\ f.kind = "object"
       /\ \E i \in 1..Len(f.data) :
             \/ "term" \notin DOMAIN f.data[i].val
             \/ "translation" \notin DOMAIN f.data[i].val
             \/ \E fld \in DOMAIN f.data[i].val : fld \notin Fields

----------------------------------------------------------------------------
\* C1: after add_term(t) with non-blank term and translation, whatever the
\* store held before, the call has returned True and the store holds under
\* t.term exactly the record t (a prior record under that key is replaced as
\* a whole), under one entry only.
C1_AddThenGet ==
    (/\ last.op = "add_term"
     /\ ~BlankText(last.arg.term)
     /\ ~BlankText(last.arg.translation))
    => /\ last.ret = TRUE
       /\ Cardinality({i \in 1..Len(terms) : terms[i].key = last.arg.term}) = 1
       /\ \A i \in 1..Len(terms) :
             terms[i].key = last.arg.term => terms[i].val = last.arg

\* an accepted add_term over a key that held a different record
C1_Witness ==
    /\ last.op = "add_term"
    /\ last.ret = TRUE
    /\ \E i \in 1..Len(last.pre.terms) :
          /\ last.pre.terms[i].key = last.arg.term
          /\ last.pre.terms[i].val # last.arg
          /\ last.pre.terms[i].val.category # last.arg.category

\* C2: add_term with a blank term or a blank translation returns False and
\* leaves the mapping and the file as they were; no save is performed.
C2_BlankRejected ==
    (/\ last.op = "add_term"
     /\ (BlankText(last.arg.term) \/ BlankText(last.arg.translation)))
    => /\ last.ret = FALSE
       /\ terms = last.pre.terms
       /\ file = last.pre.file
       /\ last.write = "none"

\* a rejected add_term whose term text is a key of the non-empty store
C2_Witness ==
    /\ last.op = "add_term"
    /\ BlankText(last.arg.translation)
    /\ ~BlankText(last.arg.term)
    /\ \E i \in 1..Len(terms) : terms[i].key = last.arg.term
    /\ last.ret = FALSE

\* C3: remove_term of an absent key returns False, changes no entry and
\* writes nothing; of a present key it returns True, deletes that entry and
\* no other, and then runs save_terms, whose completed write leaves the file
\* holding the new mapping.
C3_RemoveFrame ==
    last.op = "remove_term" =>
       IF \A i \in 1..Len(last.pre.terms) : last.pre.terms[i].key # last.arg
       THEN /\ last.ret = FALSE
            /\ terms = last.pre.terms
            /\ file = last.pre.file
            /\ last.write = "none"
       ELSE /\ last.ret = TRUE
            /\ LET kept == {i \in 1..Len(last.pre.terms) :
                               last.pre.terms[i].key # last.arg}
               IN  /\ Len(terms) = Cardinality(kept)
                   /\ \A n \in 1..Len(terms) :
                         terms[n] = last.pre.terms[Ascending(kept)[n]]
            /\ last.write \in {"ok", "denied", "partial"}
            /\ (last.write = "ok" => FileHolds(file, terms))

\* a successful remove_term that leaves other entries behind and is saved
C3_Witness ==
    /\ last.op = "remove_term"
    /\ last.ret = TRUE
    /\ Len(last.pre.terms) >= 2
    /\ terms # <<>>
    /\ last.write = "ok"

\* C4: a fresh store loaded right after a successful save holds the same keys,
\* every record equal to the saved one on the six persisted fields, with
\* flags and history back to their defaults.
C4_RoundTrip ==
    (last.op = "restart" /\ last.pre.write = "ok")
    => /\ last.err = FALSE
       /\ {terms[i].key : i \in 1..Len(terms)}
             = {last.pre.terms[i].key : i \in 1..Len(last.pre.terms)}
       /\ Len(terms) = Len(last.pre.terms)
       /\ \A i \in 1..Len(terms) : \A j \in 1..Len(last.pre.terms) :
             terms[i].key = last.pre.terms[j].key =>
                /\ \A fld \in Persisted :
                      terms[i].val[fld] = last.pre.terms[j].val[fld]
                /\ terms[i].val.flags = {}
                /\ terms[i].val.history = <<>>

\* a reload of a saved store of several terms, one of them carrying flags,
\* history and notes
C4_Witness ==
    /\ last.op = "restart"
    /\ last.pre.write = "ok"
    /\ Len(terms) >= 2
    /\ \E j \in 1..Len(last.pre.terms) :
          /\ last.pre.terms[j].val.flags # {}
          /\ last.pre.terms[j].val.history # <<>>
          /\ last.pre.terms[j].val.notes # <<>>

\* C5: every key of the mapping is the term text of its record, so no two
\* records share a term text.
C5_KeyIsTerm ==
    /\ \A i \in 1..Len(terms) : terms[i].key = terms[i].val.term
    /\ \A i, j \in 1..Len(terms) :
          terms[i].val.term = terms[j].val.term => i = j

\* C6: whenever add_term or remove_term has returned True, the file holds
\* the in-memory mapping restricted to the six persisted fields.
C6_DurableOnSuccess ==
    (last.op \in {"add_term", "remove_term"} /\ last.ret = TRUE)
    => FileHolds(file, terms)

\* C7: a load_terms that cannot read the file as Term records leaves the
\* mapping as it was before the call and shows the failure; the store then
\* still accepts an add_term and a remove_term.
C7_FailedLoadKeepsStore ==
    (last.op \in {"init", "load_terms", "restart"} /\ Unloadable(last.pre.file))
    => /\ last.err = TRUE
       /\ terms = StoreBeforeLoad
       /\ LET t == Term([term |-> sC, translation |-> sY], clock)
              a == add_term(terms, file, t, "ok")
              r == remove_term(a.terms, a.file, sC, "ok")
          IN  /\ a.ret = TRUE
              /\ \E i \in 1..Len(a.terms) : a.terms[i] = [key |-> sC, val |-> t]
              /\ r.ret = TRUE

\* a failed load_terms over a non-empty store
C7_Witness ==
    /\ last.op = "load_terms"
    /\ last.err = TRUE
    /\ Len(last.pre.terms) >= 2
    /\ terms = last.pre.terms

\* the positions of ts whose category is c
WithCategory(ts, c) == {i \in 1..Len(ts) : ts[i].val.category = c}

RECURSIVE SumOfCounts(_)
SumOfCounts(d) == IF d = <<>> THEN 0 ELSE Head(d).val + SumOfCounts(Tail(d))

\* the part of the statistics that does not depend on what a blank text is
StatisticsShape(st) ==
    /\ st.total = Len(terms)
    /\ st.translated <= st.total
    /\ \A m, n \in 1..Len(st.categories) :
          st.categories[m].key = st.categories[n].key => m = n
    /\ SumOfCounts(st.categories) <= st.total
    /\ (terms = <<>> =>
          /\ st.total = 0
          /\ st.translated = 0
          /\ st.progress.text = "0%"
          /\ st.categories = <<>>)

\* C8, as claimed: the statistics count as translated the terms whose
\* translation is not blank, and bucket the terms by their non-blank category
\* (blank: empty or whitespace-only).
C8_BlankExcluded ==
    last.op = "get_statistics" =>
       /\ StatisticsShape(last.ret)
       /\ last.ret.translated
             = Cardinality({i \in 1..Len(terms) :
                               ~BlankText(terms[i].val.translation)})
       /\ {last.ret.categories[n].key : n \in 1..Len(last.ret.categories)}
             = {terms[i].val.category : i \in 1..Len(terms)}
                  \ {c \in {terms[i].val.category : i \in 1..Len(terms)} :
                        BlankText(c)}
       /\ \A n \in 1..Len(last.ret.categories) :
             last.ret.categories[n].val
                = Cardinality(WithCategory(terms, last.ret.categories[n].key))

\* C8, amended: translated counts the terms whose translation is not the
\* empty string, and every category that is not the empty string is a bucket
\* (a whitespace-only text counts as a translation and as a category); the
\* empty store gives 0, 0, "0%" and no bucket.
C8_EmptyExcluded ==
    last.op = "get_statistics" =>
       /\ StatisticsShape(last.ret)
       /\ last.ret.translated
             = Cardinality({i \in 1..Len(terms) :
                               Len(terms[i].val.translation) > 0})
       /\ {last.ret.categories[n].key : n \in 1..Len(last.ret.categories)}
             = {terms[i].val.category : i \in 1..Len(terms)} \ {<<>>}
       /\ \A n \in 1..Len(last.ret.categories) :
             last.ret.categories[n].val
                = Cardinality(WithCategory(terms, last.ret.categories[n].key))

\* statistics of a store with an untranslated term, a term without category,
\* a whitespace-only category and a category shared by two terms
C8_Witness ==
    /\ last.op = "get_statistics"
    /\ \E i \in 1..Len(terms) : terms[i].val.translation = <<>>
    /\ \E i \in 1..Len(terms) : terms[i].val.category = <<>>
    /\ \E i \in 1..Len(terms) : terms[i].val.category = <<" ">>
    /\ \E n \in 1..Len(last.ret.categories) : last.ret.categories[n].val = 2
    /\ last.ret.translated < last.ret.total

\* the positions of ts whose translation an earlier position has too
Repeats(ts) ==
    {i \in 1..Len(ts) :
        \E j \in 1..(i - 1) : ts[j].val.translation = ts[i].val.translation}

\* the first position of ts with the translation of position i
FirstOwner(ts, i) ==
    CHOOSE j \in 1..i :
        /\ ts[j].val.translation = ts[i].val.translation
        /\ \A k \in 1..(j - 1) :
              ts[k].val.translation # ts[i].val.translation

\* C9: check_duplicates reports, in store order, one pair (first term with
\* that translation, this term) for every term whose translation an earlier
\* term has, and nothing else; n terms sharing a translation give n-1 pairs;
\* A->x, B->y, C->x gives exactly <<(A, C)>>; the store is not modified.
C9_DuplicatePairs ==
    last.op = "check_duplicates" =>
       /\ Len(last.ret.translations) = Cardinality(Repeats(terms))
       /\ \A n \in 1..Len(last.ret.translations) :
             LET i == Ascending(Repeats(terms))[n]
             IN  last.ret.translations[n]
                    = <<terms[FirstOwner(terms, i)].val.term, terms[i].val.term>>
       /\ \A tr \in {terms[i].val.translation : i \in 1..Len(terms)} :
             Cardinality({n \in 1..Len(last.ret.translations) :
                 terms[Ascending(Repeats(terms))[n]].val.translation = tr})
               = Cardinality({i \in 1..Len(terms) :
                                 terms[i].val.translation = tr}) - 1
       /\ ((/\ Len(terms) = 3
            /\ terms[1].val.translation = terms[3].val.translation
            /\ terms[2].val.translation # terms[1].val.translation)
           => last.ret.translations
                 = << <<terms[1].val.term, terms[3].val.term>> >>)
       /\ terms = last.pre.terms
       /\ file = last.pre.file

\* the check run over A->x, B->y, C->x
C9_Witness ==
    /\ last.op = "check_duplicates"
    /\ Len(terms) = 3
    /\ terms[1].val.translation = terms[3].val.translation
    /\ terms[2].val.translation # terms[1].val.translation
    /\ last.ret.translations = << <<terms[1].val.term, terms[3].val.term>> >>

\* the pairs of a sequence whose term text an earlier pair has with another
\* translation, the first such pair deciding
Inconsistent(pairs) ==
    {i \in 1..Len(pairs) :
        \E j \in 1..(i - 1) :
           /\ pairs[j][1] = pairs[i][1]
           /\ \A k \in 1..(j - 1) : pairs[k][1] # pairs[i][1]
           /\ pairs[j][2] # pairs[i][2]}

\* every record of the store is one of the pairs fed to it, under its own key
StoreIsFed ==
    \A i \in 1..Len(terms) :
       /\ terms[i].key = terms[i].val.term
       /\ \E j \in 1..Len(fed) :
             fed[j] = <<terms[i].val.term, terms[i].val.translation>>

\* C10: the consistency check run on a sequence of (term, translation) pairs
\* supplied to the program reports one issue, naming both translations, for
\* each pair whose term text was seen earlier with a different translation.
\* The pairs are supplied the only way the program takes them, one add_term
\* each, into a store that holds nothing else.
C10_IssuesOfFedPairs ==
    (last.op = "check_consistency" /\ fed # <<>> /\ StoreIsFed)
    => /\ Len(last.ret) = Cardinality(Inconsistent(fed))
       /\ \A n \in 1..Len(last.ret) :
             LET i == Ascending(Inconsistent(fed))[n]
             IN  /\ last.ret[n][1] = fed[i][1]
                 /\ last.ret[n][3] = fed[i][2]

\* the row has a text that is not blank in both required columns
Importable(row) ==
    /\ "Term" \in DOMAIN row
    /\ "Translation" \in DOMAIN row
    /\ row.Term # NaN
    /\ row.Translation # NaN
    /\ ~BlankText(row.Term)
    /\ ~BlankText(row.Translation)

\* C11: import_terms reports the number of rows add_term accepted, which are
\* the rows with a non-blank term and translation; the other rows are skipped
\* without ending the import and add no entry; the entries the rows do not
\* name stay as they were, and a term named by several rows holds the
\* translation of the last of them.  3 importable rows with distinct terms and
\* 1 row without translation, into an empty store, report 3 and leave 3
\* entries.
C11_ImportCounts ==
    last.op = "import_terms" =>
       LET rows == last.arg
           ok == {i \in 1..Len(rows) : Importable(rows[i])}
           named == {rows[i].Term : i \in ok}
       IN  /\ last.ret = Cardinality(ok)
           /\ {terms[n].key : n \in 1..Len(terms)}
                 = {last.pre.terms[j].key : j \in 1..Len(last.pre.terms)}
                      \cup named
           /\ \A j \in 1..Len(last.pre.terms) :
                 last.pre.terms[j].key \notin named
                    => \E n \in 1..Len(terms) : terms[n] = last.pre.terms[j]
           /\ \A i \in ok :
                 (\A k \in ok : k > i => rows[k].Term # rows[i].Term)
                    => \E n \in 1..Len(terms) :
                          /\ terms[n].key = rows[i].Term
                          /\ terms[n].val.term = rows[i].Term
                          /\ terms[n].val.translation = rows[i].Translation
           /\ ((/\ last.pre.terms = <<>>
                /\ Len(rows) = 4
                /\ Cardinality(ok) = 3
                /\ Cardinality(named) = 3)
               => last.ret = 3 /\ Len(terms) = 3)

\* the import of three good rows and, between them, a row without
\* translation, into an empty store
C11_Witness ==
    /\ last.op = "import_terms"
    /\ last.pre.terms = <<>>
    /\ Len(last.arg) = 4
    /\ last.arg[2].Translation = NaN
    /\ last.ret = 3
    /\ Len(terms) = 3

\* rec is in the file under key, with its six persisted fields
InFile(f, key, rec) ==
    /\ f.kind = "object"
    /\ \E i \in 1..Len(f.data) :
          /\ f.data[i].key = key
          /\ DOMAIN f.data[i].val = Persisted
          /\ \A fld \in Persisted : f.data[i].val[fld] = rec[fld]

=============================================================================
